---- MODULE Spec2Model ----
(***************************************************************************)
(* State-machine model of dappaDiary: the document ingestion pipeline and  *)
(* its registry (document-processor.ts, document-registry.ts), the         *)
(* retrievers (storacha-retriever.ts, storacha-vector-storage.ts) and the  *)
(* podcast workflow (podcast-agent.ts, api/podcast/route.ts), the          *)
(* embedding client (lilypad-service.ts createEmbeddings) and the text     *)
(* chunkers (chunkText of document-processor.ts and lilypad-service.ts).   *)
(*                                                                         *)
(* Strings whose characters matter are sequences of one-character strings. *)
(* Every `await` on I/O is a scheduling point: a call is a small program   *)
(* counter machine and the calls of one Node process interleave there.     *)
(* The object store is content-addressed, so a CID is modelled by the      *)
(* content it addresses (time stamps are left out of the contents); the    *)
(* uuid a call generates is modelled by the number of the call.            *)
(***************************************************************************)
EXTENDS Integers, Sequences, FiniteSets, TLC

VARIABLES
  call,              \* ingest calls: one processDocument invocation each
  heap,              \* DocumentRegistry objects of the process, by reference
  registryCache,     \* document-registry.ts `registryCache`
  globalStorage,     \* document-registry.ts `globalStorage[REGISTRY_CID_KEY]`
  blobs,             \* the object store: the contents uploaded so far
  documentIndices,   \* document-processor.ts `documentIndices`
  documentIndexCid,  \* document-processor.ts `documentIndexCid`
  pod,               \* the podcast request being served: route + PodcastState
  artifacts,         \* what storePodcastAudio has written to the Artifact Store
  lastResponse,      \* the response to the previous podcast request
  ret,               \* one retrieval: the stored chunks, the query, the result
  emb,               \* one createEmbeddings call: its loop and what it sent
  chunker,           \* one chunkText call: the text, maxChunkSize, the chunks
  sim,               \* one similarity computation: the vectors and the score
  cleaner,           \* one script completion and what generateScriptNode made of it
  rag,               \* one query of the RAG flow: its state and its answer
  store              \* one storeFileDirectly call: what the backend did, the outcome

ingestVars == <<call, heap, registryCache, globalStorage, blobs,
                documentIndices, documentIndexCid>>
podcastVars == <<pod, artifacts, lastResponse>>

vars == <<call, heap, registryCache, globalStorage, blobs,
          documentIndices, documentIndexCid, pod, artifacts, lastResponse,
          ret, emb, chunker, sim, cleaner, rag, store>>

NULL == "null"

\* ---------------------------------------------------------------- bounds
MaxCalls == 2        \* ingest calls in one run
MaxInFlight == 2     \* ingest calls that overlap in the concurrent runs
MaxCustomQuestions == 1  \* usable questions the model proposes per request
MaxChunks == 3       \* chunks of the document that is queried
MaxTopK == 4         \* largest topK asked for
MaxTexts == 41       \* texts handed to one createEmbeddings call
MaxTextLen == 5      \* characters of a text handed to chunkText
MaxSize == 3         \* largest maxChunkSize tried on those texts
MaxDim == 2          \* dimensions of the vectors handed to the similarity
MaxSegments == 4     \* segments (texts, <think>, </think>) of a script completion

Calls == 1..MaxCalls

\* ------------------------------------------------------- small utilities
Max(S) == CHOOSE x \in S : \A y \in S : y <= x
Min(S) == CHOOSE x \in S : \A y \in S : x <= y

NL == "\n"
WhiteSpace == {" ", "\n", "\t"}

\* A trim that leaves the string as it is
trimNothing(s) == SubSeq(s, 1, Len(s))

\* String.prototype.trim
trim(s) ==
  LET keep == {i \in 1..Len(s) : s[i] \notin WhiteSpace}
  IN IF keep = {} THEN <<>> ELSE SubSeq(s, Min(keep), Max(keep))

\* End of the match of /\n\s*\n/ that starts at position i (0: no match).
\* \s* is greedy, so the match ends at the last newline of the whitespace
\* run that follows s[i].
MatchEnd(s, i) ==
  IF s[i] # NL THEN 0
  ELSE LET ends == {j \in (i+1)..Len(s) :
                      s[j] = NL /\ \A k \in (i+1)..j : s[k] \in WhiteSpace}
       IN IF ends = {} THEN 0 ELSE Max(ends)

\* text.split(/\n\s*\n/)
RECURSIVE splitParagraphs(_)
splitParagraphs(s) ==
  LET starts == {i \in 1..Len(s) : MatchEnd(s, i) > 0}
  IN IF starts = {} THEN <<s>>
     ELSE LET i == Min(starts)
              j == MatchEnd(s, i)
          IN <<SubSeq(s, 1, i - 1)>> \o splitParagraphs(SubSeq(s, j + 1, Len(s)))

DefaultMaxChunkSize == 1000

\* The for-loop of chunkText from paragraph k on; st = [chunks, currentChunk]
RECURSIVE chunkLoop(_, _, _, _)
chunkLoop(paragraphs, k, st, maxChunkSize) ==
  IF k > Len(paragraphs) THEN st
  ELSE
    LET paragraph == paragraphs[k]
        flush == st.currentChunk # <<>>
                 /\ Len(st.currentChunk) + Len(paragraph) > maxChunkSize
        chunks1 == IF flush THEN Append(st.chunks, trim(st.currentChunk))
                   ELSE st.chunks
        cur1 == (IF flush THEN <<>> ELSE st.currentChunk) \o paragraph \o <<NL, NL>>
        force == Len(cur1) > maxChunkSize
    IN chunkLoop(paragraphs, k + 1,
                 [chunks |-> IF force THEN Append(chunks1, trim(cur1)) ELSE chunks1,
                  currentChunk |-> IF force THEN <<>> ELSE cur1],
                 maxChunkSize)

\* A chunkText without the push of the final chunk
chunkTextWithoutLast(text, maxChunkSize) ==
  chunkLoop(splitParagraphs(text), 1,
            [chunks |-> <<>>, currentChunk |-> <<>>], maxChunkSize).chunks

chunkText(text, maxChunkSize) ==
  LET st == chunkLoop(splitParagraphs(text), 1,
                      [chunks |-> <<>>, currentChunk |-> <<>>], maxChunkSize)
  IN IF trim(st.currentChunk) # <<>>
     THEN Append(st.chunks, trim(st.currentChunk))
     ELSE st.chunks

\* -------------------------------------------------------------- files
PDF == "application/pdf"
PLAIN == "text/plain"

TextA == <<"a">>
PdfBytes == <<"%", "P", "D", "F">>

\* An uploaded File: name, declared type, what file.text() yields, and what
\* the PDF extractor yields for its bytes.
Files == {
  [name |-> "a.txt", type |-> PLAIN, raw |-> TextA, pdfText |-> <<>>],
  [name |-> "c.pdf", type |-> PDF, raw |-> PdfBytes, pdfText |-> TextA] }

\* pdfOk: extractTextFromPDF returned; otherwise the catch falls back to
\* file.text()
extractTextFromDocument(file, pdfOk) ==
  IF file.type = PDF /\ pdfOk THEN file.pdfText ELSE file.raw

\* SHA-256 of the text, hex: a digest that depends on the text and nothing else
generateContentHash(content) == <<"sha256", content>>

\* The embedding the inference endpoint returns for a text (all-MiniLM-L6-v2
\* is deterministic; two dimensions stand for its 384)
ModelEmbedding(text) == <<Len(text), 1>>

\* -------------------------------------------------------------- registry
\* What findDocumentByHash returns when no entry matches (null)
NoDocument == [id |-> 0]

\* A lookup that overlooks the oldest entry of the registry
findDocumentByHashFromSecond(documents, contentHash) ==
  LET hits == {i \in 2..Len(documents) : documents[i].contentHash = contentHash}
  IN IF hits = {} THEN NoDocument ELSE documents[Min(hits)]

\* findDocumentByHash's loop over registry.documents, in insertion order
findDocumentByHash(documents, contentHash) ==
  LET hits == {i \in 1..Len(documents) : documents[i].contentHash = contentHash}
  IN IF hits = {} THEN NoDocument ELSE documents[Min(hits)]

\* registry.documents[document.id] = document
putDocument(documents, document) ==
  LET same == {i \in 1..Len(documents) : documents[i].id = document.id}
  IN IF same = {} THEN Append(documents, document)
     ELSE [documents EXCEPT ![Min(same)] = document]

\* The ProcessedDocument that processDocument builds for the registry
processedDocument(me) ==
  [id |-> me.docId, contentHash |-> me.hash,
   filename |-> me.file.name, mimeType |-> me.file.type,
   chunkCount |-> Len(me.chunks), chunkMapCid |-> me.chunkMapCid]

NoCid == [kind |-> "none"]
NoFile == [name |-> "", type |-> "", raw |-> <<>>, pdfText |-> <<>>]

\* ------------------------------------------------------- ingest calls
IdleCall ==
  [pc |-> "idle", file |-> NoFile, skip |-> FALSE, text |-> <<>>, hash |-> <<>>,
   docId |-> 0, ret |-> "", reg |-> 0, cid |-> NoCid, snap |-> <<>>,
   chunks |-> <<>>, embeddings |-> <<>>, chunkCids |-> <<>>,
   textCid |-> NoCid, chunkMapCid |-> NoCid, metadataCid |-> NoCid,
   flatIndex |-> <<>>, result |-> 0,
   \* the call is a check-duplicate request, not a processDocument call
   check |-> FALSE,
   \* what a findRelevantChunks for the returned document met in the index
   lookup |-> "",
   \* history, for stating properties: the calls that had returned
   \* when this one started, what this call wrote, whether it embedded
   doneBefore |-> {}, wrote |-> {}, embedCalled |-> FALSE]

InFlight == {c \in Calls : call[c].pc \notin {"idle", "done", "failed"}}

IngestInit ==
  /\ call = [c \in Calls |-> IdleCall]
  /\ heap = <<>>
  /\ registryCache = 0
  /\ globalStorage = NoCid
  /\ blobs = {}
  /\ documentIndices = <<>>
  /\ documentIndexCid = NoCid

\* The call is over: its locals are dropped, its history is kept
Finished(me, pc, result) ==
  [me EXCEPT !.pc = pc, !.result = result, !.ret = "", !.reg = 0, !.cid = NoCid,
             !.snap = <<>>, !.embeddings = <<>>, !.flatIndex = <<>>]

\* processDocument's catch: the call throws "Failed to process document"
Fail(c) ==
  /\ call' = [call EXCEPT ![c] = Finished(@, "failed", 0)]
  /\ UNCHANGED <<heap, registryCache, globalStorage, blobs,
                 documentIndices, documentIndexCid>>

\* processDocument up to its first registry access: extract the text and hash
\* it; uuidv4() gives call c the document id c if it gets that far.
StartCall(c, limit) ==
  /\ call[c].pc = "idle"
  /\ \A d \in Calls : d < c => call[d].pc # "idle"
  /\ Cardinality(InFlight) < limit
  /\ \E file \in Files, skip \in BOOLEAN, pdfOk \in BOOLEAN :
       LET text == extractTextFromDocument(file, pdfOk)
           me == [IdleCall EXCEPT
                    !.file = file, !.skip = skip, !.text = text,
                    !.hash = generateContentHash(text),
                    !.doneBefore = {d \in Calls : call[d].pc = "done"}]
       IN /\ (file.type # PDF => pdfOk)
          /\ call' = [call EXCEPT ![c] =
                        IF skip
                        THEN [me EXCEPT !.pc = "storeText", !.docId = c]
                        ELSE [me EXCEPT !.pc = "load", !.ret = "find"]]
  /\ UNCHANGED <<heap, registryCache, globalStorage, blobs,
                 documentIndices, documentIndexCid>>

\* What the caller of loadDocumentRegistry does, in the same turn, once the
\* load returned registry object r (h is the heap at that moment):
\*   findDocumentByHash + the dedup gate of processDocument, or
\*   addDocumentToRegistry up to its call of storeDocumentRegistry, or
\*   findDocumentByHash + the response of the check-duplicate route
\*   (result 0 stands for exists: false).
Resume(c, me, r, h) ==
  IF me.ret = "check"
  THEN /\ call' = [call EXCEPT ![c] =
                     Finished(me, "done", findDocumentByHash(h[r], me.hash).id)]
       /\ heap' = h
       /\ documentIndices' = documentIndices
  ELSE IF me.ret = "find"
  THEN LET existingDocument == findDocumentByHash(h[r], me.hash)
       IN IF existingDocument.id # 0
          THEN /\ call' = [call EXCEPT ![c] = Finished(me, "done", existingDocument.id)]
               /\ documentIndices' =
                    IF existingDocument.id \in DOMAIN documentIndices
                    THEN documentIndices
                    ELSE documentIndices @@
                         (existingDocument.id :>
                            [text |-> <<existingDocument.id, "_text">>,
                             metadata |-> <<existingDocument.id, "_metadata">>,
                             chunkMap |-> existingDocument.chunkMapCid])
               /\ heap' = h
          ELSE /\ call' = [call EXCEPT ![c] =
                             [me EXCEPT !.pc = "storeText", !.docId = c]]
               /\ heap' = h
               /\ documentIndices' = documentIndices
  ELSE /\ heap' = [h EXCEPT ![r] = putDocument(@, processedDocument(me))]
       /\ call' = [call EXCEPT ![c] = [me EXCEPT !.pc = "regInit", !.reg = r]]
       /\ documentIndices' = documentIndices

\* The catch of loadDocumentRegistry: a new empty registry becomes the cache
LoadCatch(c, me) ==
  /\ registryCache' = Len(heap) + 1
  /\ Resume(c, me, Len(heap) + 1, Append(heap, <<>>))

\* loadDocumentRegistry up to its first await
LoadRegistry(c) ==
  /\ call[c].pc = "load"
  /\ IF registryCache # 0
     THEN /\ Resume(c, call[c], registryCache, heap)
          /\ UNCHANGED <<registryCache, globalStorage, blobs, documentIndexCid>>
     ELSE /\ IF globalStorage = NoCid
             THEN /\ heap' = Append(heap, <<>>)
                  /\ call' = [call EXCEPT ![c].pc = "loadStoreInit",
                                          ![c].reg = Len(heap) + 1]
             ELSE /\ heap' = heap
                  /\ call' = [call EXCEPT ![c].pc = "loadFetch",
                                          ![c].cid = globalStorage]
          /\ UNCHANGED <<registryCache, globalStorage, blobs,
                         documentIndices, documentIndexCid>>

\* The file storeDocumentRegistry uploads for a registry
registryFile(documents) == [kind |-> "registry", documents |-> documents]

\* storeDocumentRegistry(newRegistry) called by loadDocumentRegistry:
\* initStorachaClient, then JSON.stringify of the registry object
LoadStoreInit(c) ==
  /\ call[c].pc = "loadStoreInit"
  /\ \E ok \in BOOLEAN :
       IF ok
       THEN /\ call' = [call EXCEPT ![c].pc = "loadStoreUpload",
                                    ![c].snap = heap[call[c].reg]]
            /\ UNCHANGED <<heap, registryCache, documentIndices>>
       ELSE LoadCatch(c, call[c])
  /\ UNCHANGED <<globalStorage, blobs, documentIndexCid>>

\* ... client.uploadFile returns: the pointer is set, the new registry cached
LoadStoreUpload(c) ==
  /\ call[c].pc = "loadStoreUpload"
  /\ \E ok \in BOOLEAN :
       IF ok
       THEN /\ blobs' = blobs \cup {registryFile(call[c].snap)}
            /\ globalStorage' = registryFile(call[c].snap)
            /\ registryCache' = call[c].reg
            /\ Resume(c, [call[c] EXCEPT !.wrote = @ \cup {"registry"}],
                      call[c].reg, heap)
       ELSE /\ LoadCatch(c, call[c])
            /\ UNCHANGED <<globalStorage, blobs>>
  /\ UNCHANGED documentIndexCid

\* loadDocumentRegistry fetching the persisted registry from the gateway.
\* On the server the CID lives in globalStorage, memory of the same module as
\* registryCache, and it is set only by calls that leave the cache set: no
\* call reaches this step, and it is not among the steps of Step. In a
\* browser the CID lives in localStorage and outlives the cache (Reload).
LoadFetch(c) ==
  /\ call[c].pc = "loadFetch"
  /\ \E ok \in BOOLEAN :
       IF ok
       THEN /\ registryCache' = Len(heap) + 1
            /\ Resume(c, call[c], Len(heap) + 1,
                      Append(heap, call[c].cid.documents))
       ELSE LoadCatch(c, call[c])
  /\ UNCHANGED <<globalStorage, blobs, documentIndexCid>>

\* storeDocumentText, then chunkText(text)
StoreText(c) ==
  /\ call[c].pc = "storeText"
  /\ \E ok \in BOOLEAN :
       IF ok
       THEN LET file == [kind |-> "text", documentId |-> call[c].docId,
                         text |-> call[c].text]
            IN /\ blobs' = blobs \cup {file}
               /\ call' = [call EXCEPT ![c].pc = "embed",
                                       ![c].textCid = file,
                                       ![c].chunks = chunkText(call[c].text, DefaultMaxChunkSize),
                                       ![c].wrote = @ \cup {"text"}]
               /\ UNCHANGED <<heap, registryCache, globalStorage,
                              documentIndices, documentIndexCid>>
       ELSE Fail(c)

\* A processDocument without the chunk loop
AfterChunksNoLoop(me) ==
  IF Len(me.chunkCids) <= Len(me.chunks) THEN "storeChunkMap" ELSE "storeChunk"

\* The chunk loop is over, or was never entered: storeChunkMap is next
AfterChunks(me) ==
  IF Len(me.chunkCids) = Len(me.chunks) THEN "storeChunkMap" ELSE "storeChunk"

\* createEmbeddings(chunks): it throws, or it returns the vectors of the
\* response, the first n of them when the endpoint sent only n
\* (result.data is not compared with the batch)
Embed(c) ==
  /\ call[c].pc = "embed"
  /\ \E ok \in BOOLEAN, n \in 0..Len(call[c].chunks) :
       /\ (~ok => n = Len(call[c].chunks))
       /\ IF ok \/ call[c].chunks = <<>>
          THEN call' = [call EXCEPT ![c] =
                       [@ EXCEPT !.embeddings =
                                   [i \in 1..n |->
                                      ModelEmbedding(call[c].chunks[i])],
                                 !.embedCalled = TRUE,
                                 !.pc = AfterChunks(call[c])]]
          ELSE call' = [call EXCEPT ![c] =
                       Finished([@ EXCEPT !.embedCalled = TRUE], "failed", 0)]
  /\ UNCHANGED <<heap, registryCache, globalStorage, blobs,
                 documentIndices, documentIndexCid>>

\* The file storeChunk uploads
chunkFile(documentId, chunkIndex, text, embedding) ==
  [kind |-> "chunk", documentId |-> documentId, chunkIndex |-> chunkIndex,
   text |-> text, embedding |-> embedding,
   embeddingModel |-> "sentence-transformers/all-MiniLM-L6-v2"]

\* storeChunk(documentId, i, chunks[i], embeddings[i]) for the next i;
\* embeddings[i] past the end of the list is undefined, and JSON.stringify
\* leaves the embedding out of the chunk file (<<>> here)
StoreChunk(c) ==
  /\ call[c].pc = "storeChunk"
  /\ \E ok \in BOOLEAN :
       IF ok
       THEN LET i == Len(call[c].chunkCids)   \* zero-based index of this chunk
                file == chunkFile(call[c].docId, i, call[c].chunks[i + 1],
                                  IF i + 1 <= Len(call[c].embeddings)
                                  THEN call[c].embeddings[i + 1] ELSE <<>>)
                me == [call[c] EXCEPT !.chunkCids = Append(@, file),
                                      !.wrote = @ \cup {"chunk"}]
            IN /\ blobs' = blobs \cup {file}
               /\ call' = [call EXCEPT ![c] = [me EXCEPT !.pc = AfterChunks(me)]]
               /\ UNCHANGED <<heap, registryCache, globalStorage,
                              documentIndices, documentIndexCid>>
       ELSE Fail(c)

\* storeChunkMap(documentId, chunkCids)
StoreChunkMap(c) ==
  /\ call[c].pc = "storeChunkMap"
  /\ \E ok \in BOOLEAN :
       IF ok
       THEN LET file == [kind |-> "chunkMap", documentId |-> call[c].docId,
                         chunkCids |-> call[c].chunkCids]
            IN /\ blobs' = blobs \cup {file}
               /\ call' = [call EXCEPT ![c].pc = "storeMetadata",
                                       ![c].chunkMapCid = file,
                                       ![c].wrote = @ \cup {"chunkMap"}]
               /\ UNCHANGED <<heap, registryCache, globalStorage,
                              documentIndices, documentIndexCid>>
       ELSE Fail(c)

\* getFlattenedDocumentIndex: the text, metadata and chunkMap CID of every
\* document of documentIndices
getFlattenedDocumentIndex(indices) ==
  [d \in DOMAIN indices |-> indices[d]]

\* storeDocumentMetadata, then the update of documentIndices and the call of
\* storeDocumentIndex with the index flattened at that moment
StoreMetadata(c) ==
  /\ call[c].pc = "storeMetadata"
  /\ \E ok \in BOOLEAN :
       IF ok
       THEN LET file == [kind |-> "metadata", documentId |-> call[c].docId,
                         filename |-> call[c].file.name,
                         fileType |-> call[c].file.type,
                         chunkCount |-> Len(call[c].chunks)]
                entry == [text |-> call[c].textCid, metadata |-> file,
                          chunkMap |-> call[c].chunkMapCid]
                indices == IF call[c].docId \in DOMAIN documentIndices
                           THEN [documentIndices EXCEPT ![call[c].docId] = entry]
                           ELSE documentIndices @@ (call[c].docId :> entry)
            IN /\ blobs' = blobs \cup {file}
               /\ documentIndices' = indices
               /\ call' = [call EXCEPT ![c].pc = "storeIndex",
                                       ![c].metadataCid = file,
                                       ![c].flatIndex = getFlattenedDocumentIndex(indices),
                                       ![c].wrote = @ \cup {"metadata"}]
               /\ UNCHANGED <<heap, registryCache, globalStorage, documentIndexCid>>
       ELSE Fail(c)

\* storeDocumentIndex returns; addDocumentToRegistry is called
StoreIndex(c) ==
  /\ call[c].pc = "storeIndex"
  /\ \E ok \in BOOLEAN :
       IF ok
       THEN LET file == [kind |-> "index", index |-> call[c].flatIndex]
            IN /\ blobs' = blobs \cup {file}
               /\ documentIndexCid' = file
               /\ call' = [call EXCEPT ![c].pc = "load", ![c].ret = "add",
                                       ![c].flatIndex = <<>>,
                                       ![c].wrote = @ \cup {"index"}]
               /\ UNCHANGED <<heap, registryCache, globalStorage, documentIndices>>
       ELSE Fail(c)

\* storeDocumentRegistry(registry) called by addDocumentToRegistry:
\* initStorachaClient, then JSON.stringify of the registry object
RegInit(c) ==
  /\ call[c].pc = "regInit"
  /\ \E ok \in BOOLEAN :
       IF ok
       THEN /\ call' = [call EXCEPT ![c].pc = "regUpload",
                                    ![c].snap = heap[call[c].reg]]
            /\ UNCHANGED <<heap, registryCache, globalStorage, blobs,
                           documentIndices, documentIndexCid>>
       ELSE Fail(c)

\* ... client.uploadFile returns: the pointer is set and processDocument
\* returns the document id
RegUpload(c) ==
  /\ call[c].pc = "regUpload"
  /\ \E ok \in BOOLEAN :
       IF ok
       THEN /\ blobs' = blobs \cup {registryFile(call[c].snap)}
            /\ globalStorage' = registryFile(call[c].snap)
            /\ call' = [call EXCEPT ![c] =
                          Finished([@ EXCEPT !.wrote = @ \cup {"registry"}],
                                   "done", call[c].docId)]
            /\ UNCHANGED <<heap, registryCache, documentIndices, documentIndexCid>>
       ELSE Fail(c)

Step(c) ==
  \/ LoadRegistry(c)
  \/ LoadStoreInit(c)
  \/ LoadStoreUpload(c)
  \/ StoreText(c)
  \/ Embed(c)
  \/ StoreChunk(c)
  \/ StoreChunkMap(c)
  \/ StoreMetadata(c)
  \/ StoreIndex(c)
  \/ RegInit(c)
  \/ RegUpload(c)

\* POST /api/rag/check-duplicate up to its registry access: the content
\* hash is taken of file.text(), the bytes of the file read as text
StartCheck(c) ==
  /\ call[c].pc = "idle"
  /\ \A d \in Calls : d < c => call[d].pc # "idle"
  /\ InFlight = {}
  /\ \E file \in Files :
       call' = [call EXCEPT ![c] =
                  [IdleCall EXCEPT
                     !.file = file, !.check = TRUE, !.text = file.raw,
                     !.hash = generateContentHash(file.raw),
                     !.doneBefore = {d \in Calls : call[d].pc = "done"},
                     !.pc = "load", !.ret = "check"]]
  /\ UNCHANGED <<heap, registryCache, globalStorage, blobs,
                 documentIndices, documentIndexCid>>

\* Ingest calls that may overlap: the requests of one server process
Start(c) == StartCall(c, MaxInFlight)

\* Ingest calls one after the other
StartSeq(c) == StartCall(c, 1)

IngestNext ==
  /\ \E c \in Calls : Start(c) \/ Step(c)
  /\ UNCHANGED <<podcastVars, ret, emb, chunker, sim, cleaner, rag, store>>

IngestSeqNext ==
  /\ \E c \in Calls : StartSeq(c) \/ Step(c)
  /\ UNCHANGED <<podcastVars, ret, emb, chunker, sim, cleaner, rag, store>>

\* Ingest calls and check-duplicate requests, one after the other
IngestCheckNext ==
  /\ \E c \in Calls : StartSeq(c) \/ Step(c) \/ StartCheck(c)
  /\ UNCHANGED <<podcastVars, ret, emb, chunker, sim, cleaner, rag, store>>

\* loadDocumentIndices(indexCid) for the CID of an index file stored
\* earlier: the index is fetched and, its keys '<documentId>_<type>' put
\* together again, replaces documentIndices as a whole. (A fetch that
\* fails returns false and changes nothing.)
LoadDocumentIndices ==
  /\ InFlight = {}
  /\ \E file \in {f \in blobs : f.kind = "index"} :
       /\ documentIndices' = file.index
       /\ documentIndexCid' = file
  /\ UNCHANGED <<call, heap, registryCache, globalStorage, blobs>>

\* findRelevantChunks(documentId, query) for the document call c returned,
\* up to its look into documentIndices, made once the query is embedded
FindInIndex(c) ==
  /\ InFlight = {}
  /\ call[c].pc = "done"
  /\ ~call[c].check
  /\ call' = [call EXCEPT ![c].lookup =
                IF call[c].result \in DOMAIN documentIndices THEN "found"
                ELSE "not found in the index"]
  /\ UNCHANGED <<heap, registryCache, globalStorage, blobs,
                 documentIndices, documentIndexCid>>

\* Ingest calls one after the other, with loads of a stored index and
\* retrievals in between
IngestIndexNext ==
  /\ \/ \E c \in Calls : StartSeq(c) \/ Step(c) \/ FindInIndex(c)
     \/ LoadDocumentIndices
  /\ UNCHANGED <<podcastVars, ret, emb, chunker, sim, cleaner, rag, store>>

\* The modules are loaded anew (a page of the browser is loaded again): the
\* module variables registryCache, documentIndices and documentIndexCid start
\* from their initial values, while the registry CID kept under
\* REGISTRY_CID_KEY in localStorage is still there and so are the files
Reload ==
  /\ InFlight = {}
  /\ registryCache # 0
  /\ registryCache' = 0
  /\ documentIndices' = <<>>
  /\ documentIndexCid' = NoCid
  /\ UNCHANGED <<call, heap, globalStorage, blobs>>

\* Ingest calls one after the other in a browser, with page loads in between
IngestReloadNext ==
  /\ \/ \E c \in Calls : StartSeq(c) \/ Step(c) \/ LoadFetch(c)
     \/ Reload
  /\ UNCHANGED <<podcastVars, ret, emb, chunker, sim, cleaner, rag, store>>

\* ------------------------------------------------------------ podcast
Question(kind, n) == [kind |-> kind, n |-> n]

\* No standard question at all
NoStandardQuestions == <<>>

STANDARD_PODCAST_QUESTIONS ==
  <<Question("standard", 1), Question("standard", 2), Question("standard", 3),
    Question("standard", 4), Question("standard", 5)>>

\* The n usable questions left of the model's proposal after the filter
customQuestions(n) == [i \in 1..n |-> Question("custom", i)]

\* Text produced by the model: segments of plain text and <think> markers
Txt(id, len) == [t |-> "text", id |-> id, len |-> len]
Open == [t |-> "open"]
Close == [t |-> "close"]

\* What the script completion may contain (response.choices[0].message.content)
ScriptOutputs ==
  { <<Txt("s1", 60)>>,
    <<Txt("s2", 60)>>,
    <<Open, Txt("thought", 80), Close, Txt("s1", 60)>>,
    <<Txt("s3", 10), Open, Txt("thought", 80)>>,
    <<Txt("s3", 10)>>,
    <<>> }

\* .replace(/<think>[\s\S]*?<\/think>/g, '')
RECURSIVE stripClosedThink(_)
stripClosedThink(segs) ==
  LET opens == {i \in 1..Len(segs) :
                  segs[i] = Open /\ \E j \in (i+1)..Len(segs) : segs[j] = Close}
  IN IF opens = {} THEN segs
     ELSE LET i == Min(opens)
              j == Min({k \in (i+1)..Len(segs) : segs[k] = Close})
          IN SubSeq(segs, 1, i - 1) \o stripClosedThink(SubSeq(segs, j + 1, Len(segs)))

\* A replacement that leaves an unclosed <think> where it is
stripOpenThinkNothing(segs) == SubSeq(segs, 1, Len(segs))

\* .replace(/<think>[\s\S]*/g, '')
stripOpenThink(segs) ==
  LET opens == {i \in 1..Len(segs) : segs[i] = Open}
  IN IF opens = {} THEN segs ELSE SubSeq(segs, 1, Min(opens) - 1)

cleanScript(script) == stripOpenThink(stripClosedThink(script))

RECURSIVE textLength(_)
textLength(segs) ==
  IF segs = <<>> THEN 0
  ELSE (IF segs[1].t = "text" THEN segs[1].len ELSE 8) + textLength(Tail(segs))

MinScriptLength == 50

\* What generateScriptNode makes of the completion: the cleaned script, or the
\* error of the catch when the cleaned script is too short
scriptResult(output) ==
  LET clean == cleanScript(output)
  IN IF textLength(clean) < MinScriptLength
     THEN [script |-> <<>>,
           error |-> "Error generating script: Generated script is too short or empty",
           status |-> "Error in script generation"]
     ELSE [script |-> clean, error |-> NULL,
           status |-> "Script generated successfully"]

\* An answer slot: the text the RAG agent returned for a question, or the
\* "[Error: Could not get an answer ...]" placeholder of the catch
Answer(q, kind) == [q |-> q, kind |-> kind]

\* A loop whose catch pushes nothing
pushAnswerNoPlaceholder(answers, question, outcome) ==
  IF outcome = "throw"
  THEN answers
  ELSE Append(answers, Answer(question, outcome))

\* One iteration of the for-loop of askRagAgentNode: outcome is what
\* queryRagAgent did ("answer": it returned the model's answer; "agentError":
\* it returned the "Error: ..." message of the agent's own catch; "throw": it
\* threw, and the catch of the loop pushes the placeholder)
pushAnswer(answers, question, outcome) ==
  IF outcome = "throw"
  THEN Append(answers, Answer(question, "placeholder"))
  ELSE Append(answers, Answer(question, outcome))

AskOutcomes == {"answer", "agentError", "throw"}

\* qaPairs of generateScriptNode: every question with answers[index], or with
\* "No answer available for this question." when that slot is missing
qaPairs(questions, answers) ==
  [i \in 1..Len(questions) |->
     [question |-> questions[i],
      answer |-> IF i <= Len(answers) THEN answers[i]
                 ELSE Answer(questions[i], "none")]]

\* getPodcastForDocument: "For testing purposes, return null (not found)"
NoPodcast == [script |-> <<>>, audioCid |-> NULL]
getPodcastForDocument(stored) == NoPodcast

IdlePod ==
  [pc |-> "idle", scriptOnly |-> FALSE, context |-> "",
   \* PodcastState
   questions |-> <<>>, answers |-> <<>>, script |-> <<>>, audioUrl |-> NULL,
   error |-> NULL, status |-> "Starting",
   \* the local `answers` of askRagAgentNode
   asked |-> <<>>,
   \* history, for stating properties
   outcomes |-> <<>>, questionCalls |-> 0, scriptCalls |-> 0, prompt |-> <<>>,
   generated |-> <<>>, storeCalls |-> 0, storeFailed |-> FALSE,
   shortCircuit |-> FALSE]

NoResponse ==
  [served |-> FALSE, body |-> [error |-> NULL], scriptOnly |-> FALSE,
   generated |-> <<>>, storeFailed |-> FALSE]

PodcastInit ==
  /\ pod = IdlePod
  /\ artifacts = {}
  /\ lastResponse = NoResponse

\* The route answers: the response is recorded and the request is over
Respond(body) ==
  /\ lastResponse' = [served |-> TRUE, body |-> body,
                       scriptOnly |-> pod.scriptOnly,
                       generated |-> pod.generated,
                       storeFailed |-> pod.storeFailed]
  /\ pod' = IdlePod

\* POST of the podcast route (scriptOnly: the script-only version of the
\* route) up to the document text: the existing-podcast check, then
\* getFullDocumentText with its findRelevantChunks fallback
PodcastRequest ==
  /\ pod.pc = "idle"
  /\ \E scriptOnly \in BOOLEAN,
        text \in {"direct", "chunks", "noChunks", "throw"},
        context \in {"", "context"} :
       LET existingPodcast == getPodcastForDocument(artifacts)
           me == [IdlePod EXCEPT !.scriptOnly = scriptOnly, !.context = context]
       IN IF (scriptOnly /\ existingPodcast.script # <<>>)
             \/ (~scriptOnly /\ existingPodcast.audioCid # NULL)
          THEN /\ text = "direct" /\ context = ""
               /\ pod' = [me EXCEPT !.pc = "respond", !.shortCircuit = TRUE,
                                    !.script = existingPodcast.script,
                                    !.audioUrl = existingPodcast.audioCid]
               /\ UNCHANGED <<artifacts, lastResponse>>
          ELSE CASE text = "throw" ->
                      /\ context = ""
                      /\ pod' = [me EXCEPT !.pc = "respond",
                                           !.error = "Server error",
                                           !.status = "500"]
                      /\ UNCHANGED <<artifacts, lastResponse>>
                 [] text = "noChunks" ->
                      /\ context = ""
                      /\ pod' = [me EXCEPT !.pc = "respond",
                                           !.error = "Document not found or has no content",
                                           !.status = "404"]
                      /\ UNCHANGED <<artifacts, lastResponse>>
                 [] OTHER ->
                      /\ (text = "chunks" => context # "")
                      /\ pod' = [me EXCEPT !.pc = "generateQuestions"]
                      /\ UNCHANGED <<artifacts, lastResponse>>

\* generateQuestionsNode; llm: the completion throws, or n proposed questions
\* pass the filter
GenerateQuestions ==
  /\ pod.pc = "generateQuestions"
  /\ \E llm \in ({"none", "throw"} \X {0})
                 \cup ({"proposal"} \X (0..MaxCustomQuestions)) :
       /\ (pod.context = "") = (llm[1] = "none")
       /\ LET custom == customQuestions(llm[2])
          IN pod' = [pod EXCEPT
                       !.questions = STANDARD_PODCAST_QUESTIONS \o custom,
                       !.status = "Questions generated",
                       !.questionCalls = @ + (IF llm[1] = "none" THEN 0 ELSE 1),
                       !.pc = "askRagAgent"]
  /\ UNCHANGED <<artifacts, lastResponse>>

\* askRagAgentNode: the check of state.questions, then one iteration of the
\* loop per step; after the last one the node returns { answers, status }
AskRagAgent ==
  /\ pod.pc = "askRagAgent"
  /\ IF pod.questions = <<>>
     THEN pod' = [pod EXCEPT !.error = "Error asking RAG Agent: No questions available to ask",
                             !.status = "Error querying RAG Agent",
                             !.pc = "generateScript"]
     ELSE \E outcome \in AskOutcomes :
            LET question == pod.questions[Len(pod.asked) + 1]
                answers == pushAnswer(pod.asked, question, outcome)
                outcomes == Append(pod.outcomes, outcome)
            IN IF Len(outcomes) < Len(pod.questions)
               THEN pod' = [pod EXCEPT !.asked = answers, !.outcomes = outcomes]
               ELSE pod' = [pod EXCEPT !.asked = <<>>, !.outcomes = outcomes,
                                       !.answers = answers,
                                       !.status = "RAG Agent queried successfully",
                                       !.pc = "generateScript"]
  /\ UNCHANGED <<artifacts, lastResponse>>

\* An edge from generateScript to generateAudio in both graphs
AfterScriptAlwaysAudio(scriptOnly) ==
  IF scriptOnly \in BOOLEAN THEN "generateAudio" ELSE "respond"

\* The node after generateScript: generateAudio in the full graph, the end
\* in the script-only graph
AfterScript(scriptOnly) == IF scriptOnly THEN "respond" ELSE "generateAudio"

\* generateScriptNode; llm: the completion throws ("throw") or returns text
GenerateScript ==
  /\ pod.pc = "generateScript"
  /\ IF pod.questions = <<>> \/ pod.answers = <<>>
     THEN pod' = [pod EXCEPT
                    !.error = "Error generating script: Questions or answers are missing for script generation",
                    !.status = "Error in script generation",
                    !.pc = AfterScript(pod.scriptOnly)]
     ELSE \E throws \in BOOLEAN, output \in ScriptOutputs :
            LET asked == [pod EXCEPT !.scriptCalls = @ + 1,
                                     !.prompt = qaPairs(pod.questions, pod.answers),
                                     !.pc = AfterScript(pod.scriptOnly)]
                result == scriptResult(output)
            IN IF throws
               THEN /\ output = <<>>
                    /\ pod' = [asked EXCEPT
                                 !.error = "Error generating script: completion failed",
                                 !.status = "Error in script generation"]
               ELSE IF result.error # NULL
               THEN pod' = [asked EXCEPT !.error = result.error,
                                         !.status = result.status]
               ELSE pod' = [asked EXCEPT !.script = result.script,
                                         !.generated = result.script,
                                         !.status = result.status]
  /\ UNCHANGED <<artifacts, lastResponse>>

\* A graph whose generateAudio node leads to the end
GenerateAudioThenEnd ==
  /\ pod.pc = "generateAudio"
  /\ pod' = [pod EXCEPT !.pc = "respond"]
  /\ UNCHANGED <<artifacts, lastResponse>>

\* generateAudioNode: with a script it returns a placeholder Buffer, which
\* carries no state key, so the state is left as it is
GenerateAudio ==
  /\ pod.pc = "generateAudio"
  /\ IF pod.script = <<>>
     THEN pod' = [pod EXCEPT
                    !.error = "Error in audio node: No script available for audio generation",
                    !.status = "Error in audio generation",
                    !.pc = "storeAudio"]
     ELSE pod' = [pod EXCEPT !.pc = "storeAudio"]
  /\ UNCHANGED <<artifacts, lastResponse>>

\* storeAudioNode: storePodcastAudio writes the artifact or throws
StoreAudio ==
  /\ pod.pc = "storeAudio"
  /\ IF pod.script = <<>>
     THEN /\ pod' = [pod EXCEPT
                       !.error = "Error storing audio: No script available for storage",
                       !.status = "Error in audio storage",
                       !.audioUrl = NULL,
                       !.pc = "respond"]
          /\ UNCHANGED artifacts
     ELSE \E ok \in BOOLEAN :
            IF ok
            THEN /\ artifacts' = artifacts \cup
                                 {[documentId |-> "doc", script |-> pod.script,
                                   title |-> <<"Podcast: ", pod.context>>]}
                 /\ pod' = [pod EXCEPT !.audioUrl = "https://w3s.link/ipfs/audioCid",
                                       !.status = "Audio stored successfully",
                                       !.storeCalls = @ + 1,
                                       !.pc = "respond"]
            ELSE /\ pod' = [pod EXCEPT
                              !.error = "Error storing audio: upload failed",
                              !.status = "Error in audio storage",
                              !.audioUrl = NULL,
                              !.storeCalls = @ + 1,
                              !.storeFailed = TRUE,
                              !.pc = "respond"]
                 /\ UNCHANGED artifacts
  /\ UNCHANGED lastResponse

\* The rest of POST: the JSON body built from the result of generatePodcast
\* (full route) or generatePodcastScript (script-only route)
routeBody(p) ==
  IF p.shortCircuit
  THEN IF p.scriptOnly
       THEN [success |-> TRUE, documentId |-> "doc", script |-> p.script]
       ELSE [success |-> TRUE, documentId |-> "doc", script |-> p.script,
             audioUrl |-> p.audioUrl]
  ELSE IF p.status \in {"500", "404"}
  THEN [error |-> p.error]
  ELSE IF p.scriptOnly
  THEN IF p.error # NULL \/ p.script = <<>>
       THEN [error |-> IF p.error # NULL THEN p.error
                       ELSE "Failed to generate podcast script"]
       ELSE [success |-> TRUE, documentId |-> "doc", script |-> p.script]
  ELSE IF p.error # NULL \/ p.audioUrl = NULL
       THEN [error |-> IF p.error # NULL THEN p.error
                       ELSE "Failed to generate podcast audio"]
       ELSE [success |-> TRUE, documentId |-> "doc", script |-> p.script,
             audioUrl |-> p.audioUrl]

PodcastRespond ==
  /\ pod.pc = "respond"
  /\ Respond(routeBody(pod))
  /\ UNCHANGED artifacts

PodcastNext ==
  /\ \/ PodcastRequest
     \/ GenerateQuestions
     \/ AskRagAgent
     \/ GenerateScript
     \/ GenerateAudio
     \/ StoreAudio
     \/ PodcastRespond
  /\ UNCHANGED <<ingestVars, ret, emb, chunker, sim, cleaner, rag, store>>

\* One podcast request, from the POST to its response
PodcastOnceNext == ~lastResponse.served /\ PodcastNext

\* ---------------------------------------------------------- retrieval
\* Embeddings found in stored chunks: none or an empty one, vectors of the
\* query model's dimension (2), vectors of another model's dimension (1)
StoredEmbeddings == { <<>>, <<1>>, <<1, 0>>, <<0, 1>>, <<0, 0>>, <<-1, 1>> }

\* What createEmbeddings([query]) returns for the query
QueryEmbeddings == { <<1, 0>>, <<1, 1>> }

\* The documents that may be queried: chunk i holds embedding doc[i]
StoredDocuments == UNION { [1..n -> StoredEmbeddings] : n \in 0..MaxChunks }

RECURSIVE dot(_, _)
dot(a, b) == IF a = <<>> THEN 0 ELSE a[1] * b[1] + dot(Tail(a), Tail(b))

\* What both similarity functions do when the vectors differ in length
ThrownScore == [thrown |-> TRUE, dotProduct |-> 0, norms |-> 0]

\* A similarity that does not look at the lengths
cosineSimilarityUnchecked(a, b) ==
  LET same == Len(a) = Len(b)
      norms == IF same THEN dot(a, a) * dot(b, b) ELSE 0
  IN [thrown |-> FALSE,
      dotProduct |-> IF norms = 0 THEN 0 ELSE dot(a, b), norms |-> norms]

\* cosineSimilarity of the vector storage: it throws when the lengths differ;
\* otherwise the value dotProduct / sqrt(norms), kept as the pair (dotProduct,
\* aMagnitude^2 * bMagnitude^2); a zero magnitude gives the value 0
cosineSimilarity(a, b) ==
  IF Len(a) # Len(b) THEN ThrownScore
  ELSE LET norms == dot(a, a) * dot(b, b)
       IN [thrown |-> FALSE,
           dotProduct |-> IF norms = 0 THEN 0 ELSE dot(a, b), norms |-> norms]

\* cosineDistance of vector-utils: the same computation
cosineDistance(a, b) ==
  IF Len(a) # Len(b) THEN ThrownScore
  ELSE LET norms == dot(a, a) * dot(b, b)
       IN [thrown |-> FALSE,
           dotProduct |-> IF norms = 0 THEN 0 ELSE dot(a, b), norms |-> norms]

Sign(x) == IF x > 0 THEN 1 ELSE IF x < 0 THEN -1 ELSE 0

\* s1 < s2 as numbers
ScoreLess(s1, s2) ==
  LET g1 == Sign(s1.dotProduct)
      g2 == Sign(s2.dotProduct)
      l == s1.dotProduct * s1.dotProduct * s2.norms
      r == s2.dotProduct * s2.dotProduct * s1.norms
  IN \/ g1 < g2
     \/ g1 = 1 /\ g2 = 1 /\ l < r
     \/ g1 = -1 /\ g2 = -1 /\ l > r

\* The list left in the order of the chunk map
sortNothing(scored) == scored

\* .sort((a, b) => b.score - a.score): descending and stable
sortByScore(scored) ==
  LET before(i) == {j \in 1..Len(scored) :
                      \/ ScoreLess(scored[i].score, scored[j].score)
                      \/ /\ ~ScoreLess(scored[j].score, scored[i].score)
                         /\ j < i}
  IN [p \in 1..Len(scored) |->
        scored[CHOOSE i \in 1..Len(scored) : Cardinality(before(i)) = p - 1]]

\* A slice that cuts one item too late
sliceOneMore(list, topK) ==
  SubSeq(list, 1, IF topK + 1 < Len(list) THEN topK + 1 ELSE Len(list))

\* .slice(0, topK), topK >= 0
slice(list, topK) == SubSeq(list, 1, IF topK < Len(list) THEN topK ELSE Len(list))

\* The chunks of the document as fetched, chunk i at position i
chunkList(doc) == [i \in 1..Len(doc) |-> [chunk |-> i, embedding |-> doc[i]]]

\* What a retrieval meets: the query embedding createEmbeddings returns
\* (<<>>: it throws), whether the chunk map can be fetched, the chunks that
\* can be fetched; and the topK asked for
RetrievalInputs(doc) ==
  [queryEmbedding : QueryEmbeddings \cup {<<>>}, mapOk : BOOLEAN,
   fetched : SUBSET (1..Len(doc)), topK : 0..MaxTopK]

\* What a call hands back: the result or the error, and for stating
\* properties the chunks a score was computed for and whether the query
\* was embedded
Returned(result, computed) ==
  [result |-> result, error |-> NULL, computed |-> computed, embedded |-> TRUE]
Thrown(error, computed, embedded) ==
  [result |-> <<>>, error |-> error, computed |-> computed, embedded |-> embedded]

\* The chunks of list that are in usable, each with its cosineSimilarity
\* against the query
scoreChunks(chunks, usable, queryEmbedding) ==
  LET kept == SelectSeq(chunks, LAMBDA chunk : chunk.chunk \in usable)
  IN [i \in 1..Len(kept) |->
        [chunk |-> kept[i].chunk,
         score |-> cosineSimilarity(queryEmbedding, kept[i].embedding)]]

\* The chunks whose embedding has the dimension of the query embedding
compatible(chunks, queryEmbedding) ==
  {chunks[i].chunk : i \in {j \in 1..Len(chunks) :
                              Len(chunks[j].embedding) = Len(queryEmbedding)}}

\* The chunks of a scored list
scoredIds(scored) == {scored[i].chunk : i \in 1..Len(scored)}

\* StorachaRetriever.retrieveSimilarChunks: the query is embedded first; an
\* empty chunk map makes getChunkCIDs throw, Promise.all rejects when one
\* chunk cannot be fetched, the chunks of another dimension are filtered out
\* and the others scored with cosineDistance
retrieveSimilarChunks(doc, in) ==
  IF in.queryEmbedding = <<>>
  THEN Thrown("Failed to retrieve similar chunks", {}, TRUE)
  ELSE IF ~in.mapOk \/ doc = <<>>
  THEN Thrown("Failed to retrieve similar chunks", {}, TRUE)
  ELSE IF in.fetched # 1..Len(doc)
  THEN Thrown("Failed to retrieve similar chunks", {}, TRUE)
  ELSE LET isCompatible == compatible(chunkList(doc), in.queryEmbedding)
           compatibleChunks == SelectSeq(chunkList(doc),
                                         LAMBDA chunk : chunk.chunk \in isCompatible)
           scoredChunks ==
             [i \in 1..Len(compatibleChunks) |->
                [chunk |-> compatibleChunks[i].chunk,
                 score |-> cosineDistance(in.queryEmbedding,
                                          compatibleChunks[i].embedding)]]
           computed == SelectSeq(scoredChunks, LAMBDA sc : ~sc.score.thrown)
       IN IF compatibleChunks = <<>> THEN Returned(<<>>, {})
          ELSE IF Len(computed) < Len(scoredChunks)
          THEN Thrown("Failed to retrieve similar chunks", scoredIds(computed), TRUE)
          ELSE Returned(slice(sortByScore(scoredChunks), in.topK),
                        scoredIds(computed))

\* findRelevantChunks of the document processor, which embeds the query,
\* fetches the chunk map and calls findRelevantChunks of the vector storage:
\* a chunk whose fetch fails or for which cosineSimilarity throws is skipped
findRelevantChunks(doc, in) ==
  IF in.queryEmbedding = <<>>
  THEN Thrown("Failed to create embeddings", {}, TRUE)
  ELSE IF ~in.mapOk
  THEN Thrown("Failed to fetch chunk map", {}, TRUE)
  ELSE LET tried == scoreChunks(chunkList(doc), in.fetched, in.queryEmbedding)
           scoredChunks == SelectSeq(tried, LAMBDA sc : ~sc.score.thrown)
       IN Returned(slice(sortByScore(scoredChunks), in.topK),
                   scoredIds(scoredChunks))

\* The topK retrieveContextNode asks for
ContextTopK == 3

\* A retrieveContextNode that records no error
retrieveContextNodeNoError(out) ==
  IF out.error # NULL /\ out.result # <<>> THEN "Error retrieving context" ELSE NULL

\* retrieveContextNode of the RAG flow, given what retrieveSimilarChunks did:
\* the error it puts into the state
retrieveContextNode(out) ==
  IF out.error # NULL THEN "Error retrieving context"
  ELSE IF out.result = <<>> THEN "No compatible chunks found"
  ELSE NULL

\* markers: the chunks whose text carries markers of un-extracted binary
\* content; nodeError: the error retrieveContextNode recorded
IdleRetrieval ==
  [pc |-> "ready", doc |-> <<>>, markers |-> {}, fn |-> "",
   queryEmbedding |-> <<>>, topK |-> 0, mapOk |-> FALSE, fetched |-> {},
   result |-> <<>>,
   error |-> NULL, computed |-> {}, embedded |-> FALSE, nodeError |-> NULL]

NoRetrieval == ret = IdleRetrieval

\* A stored document; its text was extracted, or none of it was
RetrievalInit ==
  \E doc \in StoredDocuments :
    \E markers \in {{}, 1..Len(doc)} :
      ret = [IdleRetrieval EXCEPT !.doc = doc, !.markers = markers]

\* The call is over: its inputs and what it returned or threw are recorded
Retrieved(fn, in, out) ==
  [ret EXCEPT !.pc = "done", !.fn = fn, !.queryEmbedding = in.queryEmbedding,
              !.topK = in.topK, !.mapOk = in.mapOk, !.fetched = in.fetched,
              !.result = out.result, !.error = out.error,
              !.computed = out.computed, !.embedded = out.embedded]

RetrieveSimilarChunks ==
  /\ ret.pc = "ready"
  /\ \E in \in RetrievalInputs(ret.doc) :
       ret' = Retrieved("retrieveSimilarChunks", in, retrieveSimilarChunks(ret.doc, in))
  /\ UNCHANGED <<ingestVars, podcastVars, emb, chunker, sim, cleaner, rag, store>>

FindRelevantChunks ==
  /\ ret.pc = "ready"
  /\ \E in \in RetrievalInputs(ret.doc) :
       ret' = Retrieved("findRelevantChunks", in, findRelevantChunks(ret.doc, in))
  /\ UNCHANGED <<ingestVars, podcastVars, emb, chunker, sim, cleaner, rag, store>>

\* retrieveContextNode: retrieveSimilarChunks(question, 3), then the state
\* update
RetrieveContextNode ==
  /\ ret.pc = "ready"
  /\ \E in \in RetrievalInputs(ret.doc) :
       /\ in.topK = ContextTopK
       /\ LET out == retrieveSimilarChunks(ret.doc, in)
          IN ret' = [Retrieved("retrieveContextNode", in, out)
                       EXCEPT !.nodeError = retrieveContextNode(out)]
  /\ UNCHANGED <<ingestVars, podcastVars, emb, chunker, sim, cleaner, rag, store>>

RetrievalNext == RetrieveSimilarChunks \/ FindRelevantChunks \/ RetrieveContextNode

\* -------------------------------------------------------------- query
\* What the chat completion of generateResponseNode does: it returns content,
\* returns no content, or throws
Completion == {"content", "empty", "throw"}

\* generateResponseNode: the answer, and whether the completion was called
\* (llm is what the completion does if it is called)
generateResponseNode(error, context, llm) ==
  IF error # NULL
  THEN [answer |-> "I encountered an error while retrieving information",
        called |-> FALSE]
  ELSE IF context = <<>>
  THEN [answer |-> "I don't have enough information to answer that question",
        called |-> FALSE]
  ELSE [answer |-> CASE llm = "content" -> "content of the completion"
                     [] llm = "empty" ->
                          "I couldn't generate a response based on the available information."
                     [] OTHER -> "I encountered an error while generating a response",
        called |-> TRUE]

\* failed: retrieveSimilarChunks threw; llmCalls: completions asked for;
\* registryCid: the chunkMapCid of the document's registry entry (NULL: no
\* entry); fallbackChunkMapCID: the constructor's argument; fetchedCid: the
\* CID getChunkCIDs asked the gateway for ("": it was not called)
IdleQuery ==
  [pc |-> "ready", doc |-> <<>>,
   registryCid |-> NULL, fallbackChunkMapCID |-> NULL, fetchedCid |-> "",
   \* RAGStateAnnotation
   context |-> <<>>, answer |-> "", error |-> NULL,
   \* what query returns
   returned |-> [answer |-> NULL, error |-> NULL],
   failed |-> FALSE, llmCalls |-> 0]

NoQuery == rag = IdleQuery

QueryInit ==
  \E doc \in StoredDocuments :
    \E registryCid \in {NULL, "cidA", "cidB"} :
      \E fallbackChunkMapCID \in {NULL, "cidA", "cidB"} :
        rag = [IdleQuery EXCEPT !.doc = doc, !.registryCid = registryCid,
                                !.fallbackChunkMapCID = fallbackChunkMapCID]

\* query up to the end of retrieveContextNode: the retriever is built with
\* the fallback CID as its chunkMapCID, and getChunkCIDs, called once the
\* query is embedded, fetches that CID (the path /ipfs/null has no chunk map)
QueryRetrieveContext ==
  /\ rag.pc = "ready"
  /\ \E in \in RetrievalInputs(rag.doc) :
       /\ in.topK = ContextTopK
       /\ (in.mapOk => rag.fallbackChunkMapCID # NULL)
       /\ LET out == retrieveSimilarChunks(rag.doc, in)
          IN rag' = [rag EXCEPT !.pc = "generateResponse",
                                !.fetchedCid = IF in.queryEmbedding = <<>> THEN ""
                                               ELSE rag.fallbackChunkMapCID,
                                !.context = out.result,
                                !.error = retrieveContextNode(out),
                                !.failed = out.error # NULL]
  /\ UNCHANGED <<ingestVars, podcastVars, ret, emb, chunker, sim, cleaner, store>>

\* generateResponseNode and the return of query
QueryGenerateResponse ==
  /\ rag.pc = "generateResponse"
  /\ \E llm \in Completion :
       LET response == generateResponseNode(rag.error, rag.context, llm)
       IN /\ (~response.called => llm = "content")
          /\ rag' = [rag EXCEPT !.pc = "done",
                                !.answer = response.answer,
                                !.llmCalls = @ + (IF response.called THEN 1 ELSE 0),
                                !.returned = [answer |-> response.answer,
                                              error |-> rag.error]]
  /\ UNCHANGED <<ingestVars, podcastVars, ret, emb, chunker, sim, cleaner, store>>

QueryNext == QueryRetrieveContext \/ QueryGenerateResponse

\* ----------------------------------------------------- script cleaning
\* The completions generateScriptNode may get: texts of 30 characters and
\* <think>, </think> markers in any order
Segments == {Txt("a", 30), Txt("b", 30), Open, Close}
Completions == UNION {[1..n -> Segments] : n \in 0..MaxSegments}

IdleCleaner == [pc |-> "ready", completion |-> <<>>, script |-> <<>>,
                error |-> NULL]

NoCleaning == cleaner = IdleCleaner

CleaningInit ==
  \E completion \in Completions :
    cleaner = [IdleCleaner EXCEPT !.completion = completion]

\* generateScriptNode from the completion on
CleanCompletion ==
  /\ cleaner.pc = "ready"
  /\ LET result == scriptResult(cleaner.completion)
     IN cleaner' = [cleaner EXCEPT !.pc = "done", !.script = result.script,
                                   !.error = result.error]
  /\ UNCHANGED <<ingestVars, podcastVars, ret, emb, chunker, sim, rag, store>>

\* --------------------------------------------------------- similarity
\* The vectors handed to cosineSimilarity and cosineDistance
Components == {-1, 0, 1}
Vectors == UNION {[1..n -> Components] : n \in 0..MaxDim}

IdleSimilarity == [pc |-> "ready", a |-> <<>>, b |-> <<>>, fn |-> "",
                   score |-> ThrownScore]

NoSimilarity == sim = IdleSimilarity

SimilarityInit ==
  \E a \in Vectors, b \in Vectors :
    sim = [IdleSimilarity EXCEPT !.a = a, !.b = b]

\* cosineSimilarity(a, b) of the vector storage
CosineSimilarity ==
  /\ sim.pc = "ready"
  /\ sim' = [sim EXCEPT !.pc = "done", !.fn = "cosineSimilarity",
                        !.score = cosineSimilarity(sim.a, sim.b)]
  /\ UNCHANGED <<ingestVars, podcastVars, ret, emb, chunker, cleaner, rag, store>>

\* cosineDistance(a, b) of vector-utils
CosineDistance ==
  /\ sim.pc = "ready"
  /\ sim' = [sim EXCEPT !.pc = "done", !.fn = "cosineDistance",
                        !.score = cosineDistance(sim.a, sim.b)]
  /\ UNCHANGED <<ingestVars, podcastVars, ret, emb, chunker, cleaner, rag, store>>

SimilarityNext == CosineSimilarity \/ CosineDistance

\* ----------------------------------------------------------- chunking
SentenceEnd == {".", "!", "?"}

\* paragraph.split(/(?<=[.!?])\s+/): a separator is a whole run of white
\* space that follows a '.', '!' or '?'
RECURSIVE splitSentences(_)
splitSentences(s) ==
  LET starts == {i \in 2..Len(s) : s[i - 1] \in SentenceEnd /\ s[i] \in WhiteSpace}
  IN IF starts = {} THEN <<s>>
     ELSE LET i == Min(starts)
              j == Max({k \in i..Len(s) : \A m \in i..k : s[m] \in WhiteSpace})
          IN <<SubSeq(s, 1, i - 1)>> \o splitSentences(SubSeq(s, j + 1, Len(s)))

\* The inner loop of lilypad-service.ts chunkText over the sentences of a
\* paragraph longer than maxChunkSize, from sentence k on
RECURSIVE sentenceLoop(_, _, _, _)
sentenceLoop(sentences, k, st, maxChunkSize) ==
  IF k > Len(sentences) THEN st
  ELSE
    LET sentence == sentences[k]
        flush == Len(st.currentChunk) + Len(sentence) > maxChunkSize
                 /\ Len(st.currentChunk) > 0
    IN sentenceLoop(sentences, k + 1,
                    [chunks |-> IF flush THEN Append(st.chunks, st.currentChunk)
                                ELSE st.chunks,
                     currentChunk |-> (IF flush THEN <<>> ELSE st.currentChunk)
                                      \o sentence \o <<" ">>],
                    maxChunkSize)

\* The outer loop of lilypad-service.ts chunkText from paragraph k on
RECURSIVE paragraphLoop(_, _, _, _)
paragraphLoop(paragraphs, k, st, maxChunkSize) ==
  IF k > Len(paragraphs) THEN st
  ELSE
    LET paragraph == paragraphs[k]
        flush == Len(st.currentChunk) + Len(paragraph) > maxChunkSize
                 /\ Len(st.currentChunk) > 0
        st1 == IF flush
               THEN [chunks |-> Append(st.chunks, st.currentChunk),
                     currentChunk |-> <<>>]
               ELSE st
        st2 == IF Len(paragraph) > maxChunkSize
               THEN sentenceLoop(splitSentences(paragraph), 1, st1, maxChunkSize)
               ELSE [st1 EXCEPT !.currentChunk = @ \o paragraph \o <<NL, NL>>]
    IN paragraphLoop(paragraphs, k + 1, st2, maxChunkSize)

\* chunkText of lilypad-service.ts
lilypadChunkText(text, maxChunkSize) ==
  LET st == paragraphLoop(splitParagraphs(text), 1,
                          [chunks |-> <<>>, currentChunk |-> <<>>], maxChunkSize)
  IN IF Len(st.currentChunk) > 0
     THEN Append(st.chunks, st.currentChunk)
     ELSE st.chunks

\* The characters of the short texts: a letter, a sentence end, a blank, a
\* line break
Alphabet == {"a", ".", " ", NL}
ShortTexts == UNION {[1..n -> Alphabet] : n \in 0..MaxTextLen}

\* The paragraph separator of the documents below
ParagraphBreak == <<NL, NL>>
Paragraph(n) == [i \in 1..n |-> "a"]

\* Documents of three paragraphs and 1200 characters in all, the two
\* separators included
ParagraphLengths == {1, 96, 100, 196, 197, 198, 400, 598, 600, 797, 798, 800,
                     801, 802, 898, 996, 997, 998, 999, 1000, 1001, 1100}
ThreeParagraphDocuments ==
  {Paragraph(p1) \o ParagraphBreak \o Paragraph(p2) \o ParagraphBreak
     \o Paragraph(1200 - 2 * Len(ParagraphBreak) - p1 - p2) :
   <<p1, p2>> \in {q \in ParagraphLengths \X ParagraphLengths :
                     q[1] + q[2] < 1200 - 2 * Len(ParagraphBreak)}}

IdleChunker == [pc |-> "ready", text |-> <<>>, maxChunkSize |-> 0, fn |-> "",
                chunks |-> <<>>]

NoChunking == chunker = IdleChunker

\* A text and a maxChunkSize to chunk: a short text with a small size, or a
\* three-paragraph document with the default size
ChunkInit ==
  \/ \E text \in ShortTexts, maxChunkSize \in 1..MaxSize :
       chunker = [IdleChunker EXCEPT !.text = text, !.maxChunkSize = maxChunkSize]
  \/ \E text \in ThreeParagraphDocuments :
       chunker = [IdleChunker EXCEPT !.text = text,
                                     !.maxChunkSize = DefaultMaxChunkSize]

\* chunkText(text, maxChunkSize) of document-processor
ChunkText ==
  /\ chunker.pc = "ready"
  /\ chunker' = [chunker EXCEPT !.pc = "done", !.fn = "chunkText",
                   !.chunks = chunkText(chunker.text, chunker.maxChunkSize)]
  /\ UNCHANGED <<ingestVars, podcastVars, ret, emb, sim, cleaner, rag, store>>

\* chunkText(text, maxChunkSize) of lilypad-service
LilypadChunkText ==
  /\ chunker.pc = "ready"
  /\ chunker' = [chunker EXCEPT !.pc = "done", !.fn = "lilypadChunkText",
                   !.chunks = lilypadChunkText(chunker.text, chunker.maxChunkSize)]
  /\ UNCHANGED <<ingestVars, podcastVars, ret, emb, sim, cleaner, rag, store>>

ChunkNext == ChunkText \/ LilypadChunkText

\* ---------------------------------------------------------- embedding
MAX_RETRIES == 3
BATCH_SIZE == 20

\* The vector the model yields for a text
embeddingOf(text) == [embedding |-> text]

\* Batches that overlap by one text
batchesOverlapping(texts) ==
  [b \in 1..((Len(texts) + BATCH_SIZE - 1) \div BATCH_SIZE) |->
     SubSeq(texts, (b - 1) * BATCH_SIZE + 1,
            IF b * BATCH_SIZE + 1 < Len(texts) THEN b * BATCH_SIZE + 1 ELSE Len(texts))]

\* batches.push(texts.slice(i, i + BATCH_SIZE)) for i = 0, BATCH_SIZE, ...
batchesOf(texts) ==
  [b \in 1..((Len(texts) + BATCH_SIZE - 1) \div BATCH_SIZE) |->
     SubSeq(texts, (b - 1) * BATCH_SIZE + 1,
            IF b * BATCH_SIZE < Len(texts) THEN b * BATCH_SIZE ELSE Len(texts))]

\* What an attempt can throw: the endpoint answers with a status that is not
\* ok, the answer carries no data array, or fetch itself fails (a timeout, a
\* connection reset); message is String(error), word by word
\* new Error(`API responded with status: ${response.status}, ${errorText}`)
HttpError(status, errorText) ==
  [kind |-> "http", status |-> status,
   message |-> <<"Error:", "API responded with status:", status>> \o errorText]
\* The bodies the endpoint sends with a status that is not ok
ErrorTexts == { <<"invalid", "request">>,
                <<"input", "of", "520", "tokens", "is", "too", "long">> }
FormatError ==
  [kind |-> "format", status |-> "200",
   message |-> <<"Error:", "Unexpected response format:">>]
FetchError(kind, message) == [kind |-> kind, status |-> "", message |-> message]
NoError == [kind |-> "none", status |-> "", message |-> <<>>]

AttemptErrors ==
  {HttpError(status, errorText) :
     status \in {"400", "500", "503", "504", "520"}, errorText \in ErrorTexts}
  \cup {FormatError,
        FetchError("timeout", <<"TypeError:", "fetch failed">>),
        FetchError("reset", <<"TypeError:", "fetch failed">>),
        FetchError("reset", <<"Error:", "Connection", "error.">>)}

\* errorStr.includes('520') || ... || errorStr.includes('Connection')
isTemporary(error) ==
  \E i \in 1..Len(error.message) :
    error.message[i] \in {"520", "504", "503", "Connection"}

\* A loop that goes on while retryCount is at most MAX_RETRIES
retryOnceMore(retryCount) == retryCount <= MAX_RETRIES

\* while (retryCount < MAX_RETRIES && !success), after a failed attempt
retry(retryCount) == retryCount < MAX_RETRIES

\* throw new Error(`Failed to create embeddings: ${error}`)
FailedToCreate(error) ==
  [kind |-> "error", status |-> "",
   message |-> <<"Error:", "Failed to create embeddings:">> \o error.message]

\* sent[b]: the number of requests made for batch b so far; delays: the
\* number of times the call waited RETRY_DELAY
IdleEmbedding ==
  [pc |-> "idle", texts |-> <<>>, batchIndex |-> 0, retryCount |-> 0,
   allEmbeddings |-> <<>>, lastError |-> NoError, thrown |-> NoError,
   sent |-> <<>>, delays |-> 0]

NoEmbedding == emb = IdleEmbedding

\* createEmbeddings(texts) up to the first request; text i is the i-th text
CreateEmbeddings ==
  /\ emb.pc = "idle"
  /\ \E n \in 0..MaxTexts :
       LET texts == [i \in 1..n |-> i]
       IN emb' = [IdleEmbedding EXCEPT
                    !.texts = texts,
                    !.pc = IF n = 0 THEN "done" ELSE "fetch",
                    !.batchIndex = IF n = 0 THEN 0 ELSE 1,
                    !.sent = [b \in 1..Len(batchesOf(texts)) |-> 0]]
  /\ UNCHANGED <<ingestVars, podcastVars, ret, chunker, sim, cleaner, rag, store>>

\* await new Promise(resolve => setTimeout(resolve, RETRY_DELAY))
RetryDelay ==
  /\ emb.pc = "delay"
  /\ emb' = [emb EXCEPT !.pc = "fetch", !.delays = @ + 1]
  /\ UNCHANGED <<ingestVars, podcastVars, ret, chunker, sim, cleaner, rag, store>>

\* One attempt of the current batch: the request, then either the push of the
\* vectors of result.data or the catch
EmbedBatch ==
  /\ emb.pc = "fetch"
  /\ LET batch == batchesOf(emb.texts)[emb.batchIndex]
         sent == [emb EXCEPT !.sent[emb.batchIndex] = @ + 1]
     IN \/ LET data == [i \in 1..Len(batch) |-> embeddingOf(batch[i])]
               last == emb.batchIndex = Len(batchesOf(emb.texts))
           IN emb' = [sent EXCEPT
                        !.allEmbeddings = @ \o data,
                        !.pc = IF last THEN "done" ELSE "fetch",
                        !.batchIndex = IF last THEN @ ELSE @ + 1,
                        !.retryCount = IF last THEN @ ELSE 0,
                        !.lastError = IF last THEN @ ELSE NoError]
        \/ \E error \in AttemptErrors :
             LET retryCount == emb.retryCount + 1
                 caught == [sent EXCEPT !.lastError = error,
                                        !.retryCount = retryCount]
             IN IF isTemporary(error) /\ retry(retryCount)
                THEN emb' = [caught EXCEPT !.pc = "delay"]
                ELSE emb' = [caught EXCEPT !.pc = "failed",
                                           !.thrown = FailedToCreate(error)]
  /\ UNCHANGED <<ingestVars, podcastVars, ret, chunker, sim, cleaner, rag, store>>

EmbeddingNext == CreateEmbeddings \/ RetryDelay \/ EmbedBatch

\* ------------------------------------------------------- recall store
\* The substrings storeFileDirectly looks for in String(error)
ErrorMarks ==
  {"SyntaxError", "<html>", "<!DOCTYPE", "ECONNREFUSED", "ETIMEDOUT",
   "NetworkError", "Unauthorized", "401", "403"}

\* What bucketManager.add does within the race: it resolves, with or without
\* response.meta, the 30 second timer rejects first, or it rejects with an
\* error whose text holds the given marks (an unparseable body is a
\* SyntaxError; an HTML body is quoted in it)
AddOutcomes ==
  [kind : {"added", "addedNoMeta", "timeout"}, marks : {{}}]
  \cup [kind : {"threw"}, marks : SUBSET ErrorMarks]

\* storeFileDirectly: the inner catch lets an HTML parse error pass, the
\* outer catch rethrows only what it takes for a network or authentication
\* error; the text of the timer's error is 'Error: Request timed out after
\* 30 seconds', which holds none of the marks
storeFileDirectly(key, add) ==
  LET html == /\ "SyntaxError" \in add.marks
              /\ ("<html>" \in add.marks \/ "<!DOCTYPE" \in add.marks)
      critical == add.marks \cap {"ECONNREFUSED", "ETIMEDOUT", "NetworkError",
                                  "Unauthorized", "401", "403"} # {}
  IN IF add.kind \in {"added", "addedNoMeta"} \/ html
     THEN [returned |-> key, thrown |-> FALSE]
     ELSE IF critical
     THEN [returned |-> NULL, thrown |-> TRUE]
     ELSE [returned |-> key, thrown |-> FALSE]

NoStore ==
  store = [pc |-> "ready", key |-> "", add |-> [kind |-> "", marks |-> {}],
           returned |-> NULL, thrown |-> FALSE]

\* One storeFileDirectly(bucket, key, file, metadata) call
StoreFileDirectly ==
  /\ store.pc = "ready"
  /\ \E key \in {"doc.txt", "doc.txt.chunk0"}, add \in AddOutcomes :
       LET out == storeFileDirectly(key, add)
       IN store' = [pc |-> "done", key |-> key, add |-> add,
                    returned |-> out.returned, thrown |-> out.thrown]
  /\ UNCHANGED <<ingestVars, podcastVars, ret, emb, chunker, sim, cleaner, rag>>

\* ------------------------------------------------------ specifications
\* Nothing ingested, no podcast request, no retrieval
Init ==
  /\ IngestInit /\ PodcastInit /\ NoRetrieval /\ NoEmbedding /\ NoChunking
  /\ NoSimilarity /\ NoCleaning /\ NoQuery /\ NoStore

\* A stored document is there to be queried
InitRetrieval ==
  /\ IngestInit /\ PodcastInit /\ RetrievalInit /\ NoEmbedding /\ NoChunking
  /\ NoSimilarity /\ NoCleaning /\ NoQuery /\ NoStore

SpecIngest == Init /\ [][IngestNext]_vars

SpecIngestSeq == Init /\ [][IngestSeqNext]_vars

SpecIngestReload == Init /\ [][IngestReloadNext]_vars

SpecCheck == Init /\ [][IngestCheckNext]_vars

SpecIndex == Init /\ [][IngestIndexNext]_vars

SpecPodcast == Init /\ [][PodcastNext]_vars

SpecPodcastOnce == Init /\ [][PodcastOnceNext]_vars

SpecRetrieval == InitRetrieval /\ [][RetrievalNext]_vars

SpecEmbedding == Init /\ [][EmbeddingNext]_vars

InitChunk ==
  /\ IngestInit /\ PodcastInit /\ NoRetrieval /\ NoEmbedding /\ ChunkInit
  /\ NoSimilarity /\ NoCleaning /\ NoQuery /\ NoStore

SpecChunk == InitChunk /\ [][ChunkNext]_vars

InitSimilarity ==
  /\ IngestInit /\ PodcastInit /\ NoRetrieval /\ NoEmbedding /\ NoChunking
  /\ SimilarityInit /\ NoCleaning /\ NoQuery /\ NoStore

SpecSimilarity == InitSimilarity /\ [][SimilarityNext]_vars

InitCleaning ==
  /\ IngestInit /\ PodcastInit /\ NoRetrieval /\ NoEmbedding /\ NoChunking
  /\ NoSimilarity /\ CleaningInit /\ NoQuery /\ NoStore

SpecCleaning == InitCleaning /\ [][CleanCompletion]_vars

InitQuery ==
  /\ IngestInit /\ PodcastInit /\ NoRetrieval /\ NoEmbedding /\ NoChunking
  /\ NoSimilarity /\ NoCleaning /\ QueryInit /\ NoStore

SpecQuery == InitQuery /\ [][QueryNext]_vars

SpecStore == Init /\ [][StoreFileDirectly]_vars

Spec == SpecIngest

\* ------------------------------------------------------------ properties
\* Pairs of ingest calls without dedup bypass whose extracted text is the same
SameTextPairs ==
  {p \in Calls \X Calls :
     /\ p[1] # p[2]
     /\ call[p[1]].pc # "idle" /\ call[p[2]].pc # "idle"
     /\ ~call[p[1]].skip /\ ~call[p[2]].skip
     /\ call[p[1]].text = call[p[2]].text}

registryDocuments == IF registryCache = 0 THEN <<>> ELSE heap[registryCache]

\* C2: after any sequence of ingest calls, dedup bypass included, no two
\* entries of the registry carry the same content hash.
C2_NoTwoEntriesWithSameHash ==
  \A i, j \in 1..Len(registryDocuments) :
    registryDocuments[i].contentHash = registryDocuments[j].contentHash => i = j

\* C3: two overlapping ingest calls without dedup bypass and with the same
\* extracted text return the same Document id.
C3_ConcurrentIngestsAgree ==
  \A p \in SameTextPairs :
    (call[p[1]].pc = "done" /\ call[p[2]].pc = "done") =>
      call[p[1]].result = call[p[2]].result

\* C4: after an ingest call failed, looking its content hash up in the
\* registry does not yield the document of the failed call.
C4_FailedIngestNotFound ==
  \A c \in Calls :
    call[c].pc = "failed" =>
      findDocumentByHash(registryDocuments, call[c].hash).id # c

\* The retrieving stage is over: every question was asked
AllAsked ==
  /\ pod.outcomes # <<>>
  /\ Len(pod.outcomes) = Len(pod.questions)
  /\ pod.pc # "askRagAgent"

\* C5: after the retrieving stage the answer list is as long as the question
\* list, slot i holds the answer to question i when that question succeeded
\* and the error placeholder when it failed; and when at least one question
\* succeeded the script-synthesis call is made, over exactly these pairs.
C5_AnswersAlignedWithQuestions ==
  AllAsked =>
    /\ Len(pod.answers) = Len(pod.questions)
    /\ \A i \in 1..Len(pod.questions) :
         /\ pod.answers[i].q = pod.questions[i]
         /\ pod.answers[i].kind =
              (IF pod.outcomes[i] = "throw" THEN "placeholder" ELSE pod.outcomes[i])
    /\ ((\E i \in 1..Len(pod.outcomes) : pod.outcomes[i] = "answer")
          /\ pod.pc # "generateScript") =>
         /\ pod.scriptCalls = 1
         /\ pod.prompt = qaPairs(pod.questions, pod.answers)

C5_Witness ==
  /\ AllAsked
  /\ pod.pc = "respond"
  /\ \E i, j \in 1..Len(pod.outcomes) :
       /\ i < j
       /\ pod.outcomes[i] = "throw" /\ pod.outcomes[j] = "answer"
       /\ pod.answers[i].kind = "placeholder" /\ pod.answers[j].kind = "answer"
  /\ pod.scriptCalls = 1
  /\ pod.generated # <<>>

\* C6: when every question of the retrieving stage failed, the stage reports a
\* failure and the script-synthesis call is never made.
C6_AllFailedStopsWorkflow ==
  (AllAsked /\ \A i \in 1..Len(pod.outcomes) : pod.outcomes[i] = "throw") =>
    /\ pod.error # NULL
    /\ pod.scriptCalls = 0

\* C7: a script-only request that follows a successful script-only request for
\* the same document makes no model call and returns the same script.
C7_SecondScriptRequestServedFromStore ==
  (/\ lastResponse.served /\ lastResponse.scriptOnly
   /\ "script" \in DOMAIN lastResponse.body
   /\ pod.pc # "idle" /\ pod.scriptOnly
   /\ pod.status \notin {"500", "404"}) =>
    /\ pod.questionCalls = 0
    /\ pod.scriptCalls = 0
    /\ pod.pc = "respond" =>
         /\ "script" \in DOMAIN routeBody(pod)
         /\ routeBody(pod).script = lastResponse.body.script

\* C8: when persisting fails after the script was synthesized, the response to
\* the full request still carries the script.
C8_ScriptSurvivesStoreFailure ==
  (/\ lastResponse.served /\ ~lastResponse.scriptOnly
   /\ lastResponse.storeFailed /\ lastResponse.generated # <<>>) =>
    /\ "script" \in DOMAIN lastResponse.body
    /\ lastResponse.body.script = lastResponse.generated

C10_AtLeastMinTopKChunkCount ==
  (/\ ret.pc = "done" /\ ret.error = NULL
   /\ Len(ret.doc) > 0 /\ ret.fetched = 1..Len(ret.doc)) =>
    Len(ret.result) >= (IF ret.topK < Len(ret.doc) THEN ret.topK ELSE Len(ret.doc))

\* The embedding of chunk c has the dimension of the query embedding
SameDimension(c) == Len(ret.doc[c]) = Len(ret.queryEmbedding)

\* C11: a chunk whose embedding dimension differs from the query embedding's
\* never appears in a result ranked by cosine similarity, and no similarity
\* score is computed between vectors of different dimension.
C11_NoMismatchedChunkRanked ==
  ret.pc = "done" =>
    /\ \A i \in 1..Len(ret.result) : SameDimension(ret.result[i].chunk)
    /\ \A c \in ret.computed : SameDimension(c)

C11_Witness ==
  /\ ret.pc = "done"
  /\ ret.fn = "findRelevantChunks"
  /\ ret.error = NULL
  /\ ret.result # <<>>
  /\ \E c \in ret.fetched : ~SameDimension(c)
  /\ \E c \in ret.fetched : Len(ret.doc[c]) = 1

\* The retrieval got its query embedding, the chunk map and every chunk
AllFetched ==
  /\ ret.pc = "done"
  /\ ret.queryEmbedding # <<>>
  /\ ret.mapOk
  /\ ret.doc # <<>>
  /\ ret.fetched = 1..Len(ret.doc)

\* C12: when no stored chunk has an embedding of the query embedding's
\* dimension, retrieval raises no error and records none, and returns
\* chunks (ranked lexically).
C12_IncompatibleRoutesToLexical ==
  (/\ AllFetched
   /\ ret.fn = "retrieveContextNode"
   /\ \A c \in 1..Len(ret.doc) : ~SameDimension(c)) =>
    /\ ret.error = NULL
    /\ ret.nodeError = NULL
    /\ ret.result # <<>>

\* C13: when the chunk text of the document carries markers of un-extracted
\* binary content, the retrieval neither embeds the query nor computes a
\* cosine similarity.
C13_BinaryContentSkipsVectorRanking ==
  (ret.pc = "done" /\ ret.markers # {}) =>
    /\ ~ret.embedded
    /\ ret.computed = {}


\* The transient failures of the retry policy: a timeout, a connection reset,
\* a response of the 5xx class
Transient(error) ==
  \/ error.kind \in {"timeout", "reset"}
  \/ error.kind = "http" /\ error.status \in {"500", "503", "504", "520"}

Failure(error) == error.kind \in {"http", "format", "timeout", "reset"}

C15_TransientFailureRetried ==
  (emb.pc = "failed" /\ Transient(emb.lastError)) =>
    emb.sent[emb.batchIndex] = MAX_RETRIES

\* C16: after an attempt failed with a failure that is not transient, the
\* batch is not attempted again, no later batch is sent, and the call has
\* failed with that error in its message.
C16_NonRetryableAborts ==
  (Failure(emb.lastError) /\ ~Transient(emb.lastError)) =>
    /\ emb.pc = "failed"
    /\ emb.thrown = FailedToCreate(emb.lastError)
    /\ \A b \in 1..Len(emb.sent) : b > emb.batchIndex => emb.sent[b] = 0


\* The chunks one after the other, with nothing between them
RECURSIVE concatChunks(_)
concatChunks(chunks) ==
  IF chunks = <<>> THEN <<>> ELSE Head(chunks) \o concatChunks(Tail(chunks))

\* The chunks one after the other, a blank between two chunks
RECURSIVE joinChunks(_)
joinChunks(chunks) ==
  IF chunks = <<>> THEN <<>>
  ELSE IF Len(chunks) = 1 THEN Head(chunks)
  ELSE Head(chunks) \o <<" ">> \o joinChunks(Tail(chunks))

\* The text without its white space
stripWhitespace(s) == SelectSeq(s, LAMBDA c : c \notin WhiteSpace)

\* The text with every run of white space replaced by one blank and no white
\* space at either end
normalizeWhitespace(s) ==
  LET t == trim(s)
      kept == SelectSeq([i \in 1..Len(t) |-> i],
                        LAMBDA i : t[i] \notin WhiteSpace \/ t[i - 1] \notin WhiteSpace)
  IN [k \in 1..Len(kept) |-> IF t[kept[k]] \in WhiteSpace THEN " " ELSE t[kept[k]]]

\* C17: the chunks of a text, concatenated in order, are the text up to white
\* space: the same characters in the same order once white space is left out,
\* and the same words in the same order when a chunk boundary counts as
\* white space. Holds for both chunkText functions.
C17_ChunksReproduceText ==
  chunker.pc = "done" =>
    /\ stripWhitespace(concatChunks(chunker.chunks)) = stripWhitespace(chunker.text)
    /\ normalizeWhitespace(joinChunks(chunker.chunks))
         = normalizeWhitespace(chunker.text)

C17_Witness ==
  /\ chunker.pc = "done"
  /\ chunker.fn = "chunkText"
  /\ Len(chunker.chunks) >= 2
  /\ \A i \in 1..Len(chunker.chunks) : stripWhitespace(chunker.chunks[i]) # <<>>
  /\ Len(normalizeWhitespace(chunker.text)) < Len(chunker.text)

\* C18: no chunk returned by chunkText is the empty string.
C18_NoEmptyChunk ==
  chunker.pc = "done" =>
    \A i \in 1..Len(chunker.chunks) : chunker.chunks[i] # <<>>

\* A chunk that is one sentence of one paragraph
SingleSentence(chunk) ==
  /\ Len(splitParagraphs(trim(chunk))) = 1
  /\ Len(splitSentences(trim(chunk))) = 1

\* C19: a chunk is at most maxChunkSize long, unless it is one single
\* sentence that alone is longer than maxChunkSize.
C19_ChunkWithinMaxSize ==
  chunker.pc = "done" =>
    \A i \in 1..Len(chunker.chunks) :
      \/ Len(chunker.chunks[i]) <= chunker.maxChunkSize
      \/ /\ SingleSentence(chunker.chunks[i])
         /\ Len(trim(chunker.chunks[i])) > chunker.maxChunkSize

\* A document of three paragraphs and 1200 characters chunked by
\* document-processor's chunkText with a maxChunkSize of 1000
ThreeParagraphsChunked ==
  /\ chunker.pc = "done"
  /\ chunker.fn = "chunkText"
  /\ chunker.maxChunkSize = 1000
  /\ Len(chunker.text) = 1200
  /\ Len(splitParagraphs(chunker.text)) = 3

\* Two chunks, the first a whole number of paragraphs of at most 1000
\* characters, the second the rest of the document
TwoChunksAtParagraphBoundary ==
  LET paragraphs == splitParagraphs(chunker.text)
  IN /\ Len(chunker.chunks) = 2
     /\ Len(chunker.chunks[1]) <= 1000
     /\ chunker.chunks[1] \in {paragraphs[1],
                                paragraphs[1] \o ParagraphBreak \o paragraphs[2]}
     /\ chunker.chunks[1] \o ParagraphBreak \o chunker.chunks[2] = chunker.text

MiddleParagraphFits ==
  LET paragraphs == splitParagraphs(chunker.text)
      between == Len(ParagraphBreak)
  IN /\ Len(paragraphs[1]) <= 1000
     /\ \/ Len(paragraphs[1]) + between + Len(paragraphs[2]) <= 1000
        \/ Len(paragraphs[2]) + between + Len(paragraphs[3]) <= 1000

IsOne(score) ==
  /\ ~score.thrown
  /\ score.dotProduct > 0
  /\ score.dotProduct * score.dotProduct = score.norms

\* C21: the similarity of a vector of one dimension or more with itself is
\* 1, the all-zero vector included, for cosineSimilarity and cosineDistance.
C21_SelfSimilarityIsOne ==
  (sim.pc = "done" /\ sim.a = sim.b /\ sim.a # <<>>) => IsOne(sim.score)


\* The nodes of the podcast graphs and the edges of the full graph
Stages == {"generateQuestions", "askRagAgent", "generateScript",
           "generateAudio", "storeAudio"}
FullGraphEdges ==
  { <<"generateQuestions", "askRagAgent">>, <<"askRagAgent", "generateScript">>,
    <<"generateScript", "generateAudio">>, <<"generateAudio", "storeAudio">>,
    <<"storeAudio", "respond">> }

\* C22: in the full workflow the nodes run in the order generateQuestions,
\* askRagAgent, generateScript, generateAudio, storeAudio: the workflow is
\* entered at generateQuestions only, every move from a node follows the
\* chain (so no node runs twice), and the workflow is left after storeAudio
\* only, with the status of a stored podcast or of a failure.
C22_StagesInOrder ==
  [][(~pod'.scriptOnly /\ pod'.pc # pod.pc) =>
       /\ pod'.pc \in Stages /\ pod.pc \notin Stages =>
            pod.pc = "idle" /\ pod'.pc = "generateQuestions"
       /\ pod.pc \in Stages => <<pod.pc, pod'.pc>> \in FullGraphEdges
       /\ pod.pc \in Stages /\ pod'.pc = "respond" =>
            pod'.status \in {"Audio stored successfully", "Error in audio storage"}
    ]_vars

C22_Witness ==
  /\ pod.pc = "respond"
  /\ ~pod.scriptOnly
  /\ pod.status = "Audio stored successfully"
  /\ Len(pod.answers) = Len(pod.questions)
  /\ pod.scriptCalls = 1 /\ pod.storeCalls = 1

\* The script stage called the model and got no usable script
ScriptStageFailed == pod.scriptCalls = 1 /\ pod.generated = <<>>

ScriptErrors ==
  { "Error generating script: completion failed",
    "Error generating script: Generated script is too short or empty" }

\* C23: once the script stage has failed in the full workflow, no later node
\* runs and the error of the job is the error of the script stage.
C23_ScriptFailureAborts ==
  (~pod.scriptOnly /\ ScriptStageFailed) =>
    /\ pod.pc \notin {"generateAudio", "storeAudio"}
    /\ pod.error \in ScriptErrors

\* C24: a script-only request never reaches the audio or the storage node,
\* writes nothing to the Artifact Store, and its response has no audioUrl field.
C24_ScriptOnlyLeavesAudioOut ==
  /\ pod.scriptOnly =>
       /\ pod.pc \notin {"generateAudio", "storeAudio"}
       /\ pod.storeCalls = 0
       /\ artifacts = {}
  /\ (lastResponse.served /\ lastResponse.scriptOnly) =>
       /\ "audioUrl" \notin DOMAIN lastResponse.body
       /\ artifacts = {}

C24_Witness ==
  /\ lastResponse.served
  /\ lastResponse.scriptOnly
  /\ "script" \in DOMAIN lastResponse.body
  /\ lastResponse.body.script # <<>>

\* C25: generateQuestionsNode leaves the error unset and returns a list of
\* questions that is not empty and holds the first standard question ("What
\* is this document about ..."), whatever the question completion did.
C25_QuestionsStageNeverFails ==
  (pod.pc = "askRagAgent" /\ pod.outcomes = <<>>) =>
    /\ pod.error = NULL
    /\ pod.questions # <<>>
    /\ \E i \in 1..Len(pod.questions) : pod.questions[i] = Question("standard", 1)

C25_Witness ==
  /\ pod.pc = "askRagAgent" /\ pod.outcomes = <<>>
  /\ pod.questionCalls = 1
  /\ Len(pod.questions) = 5


\* C26: the script completion is asked for once, and no pair of its prompt
\* has the error placeholder of a failed question as its answer.
C26_OnlySurvivingPairsInPrompt ==
  pod.scriptCalls > 0 =>
    /\ pod.scriptCalls = 1
    /\ \A i \in 1..Len(pod.prompt) : pod.prompt[i].answer.kind # "placeholder"

\* Segment k of a completion lies in a <think> block, closed or not: a
\* <think> comes before it with no </think> in between
InThinkBlock(segs, k) ==
  \E i \in 1..(k - 1) :
    segs[i] = Open /\ \A j \in (i + 1)..(k - 1) : segs[j] # Close

\* The completion without its <think> blocks
WithoutThinkBlocks(segs) ==
  LET kept == SelectSeq([k \in 1..Len(segs) |-> k],
                        LAMBDA k : segs[k] # Open /\ ~InThinkBlock(segs, k))
  IN [n \in 1..Len(kept) |-> segs[kept[n]]]

\* C27: a script that is not empty is the completion without its <think>
\* blocks, closed or unclosed, and has at least 50 characters; a completion
\* that is shorter than 50 characters without its blocks fails the script
\* stage and leaves the script empty.
C27_ScriptIsCleanAndLongEnough ==
  cleaner.pc = "done" =>
    /\ cleaner.script # <<>> =>
         /\ cleaner.script = WithoutThinkBlocks(cleaner.completion)
         /\ \A k \in 1..Len(cleaner.script) : cleaner.script[k] # Open
         /\ textLength(cleaner.script) >= 50
         /\ cleaner.error = NULL
    /\ textLength(WithoutThinkBlocks(cleaner.completion)) < 50 =>
         /\ cleaner.script = <<>>
         /\ cleaner.error # NULL

C27_Witness ==
  /\ cleaner.pc = "done"
  /\ cleaner.script # <<>>
  /\ Len(cleaner.script) < Len(cleaner.completion)
  /\ \E k \in 1..Len(cleaner.completion) :
       /\ cleaner.completion[k] = Open
       /\ \A j \in (k + 1)..Len(cleaner.completion) : cleaner.completion[j] # Close

\* C28: query returns an answer text whatever failed (the query embedding,
\* the chunk map, a chunk, the completion); when retrieveSimilarChunks threw
\* or returned no chunk, the completion is not called and the answer is the
\* message that the information could not be retrieved.
C28_QueryAlwaysAnswers ==
  rag.pc = "done" =>
    /\ rag.returned.answer # NULL /\ rag.returned.answer # ""
    /\ (rag.failed \/ rag.context = <<>>) =>
         /\ rag.llmCalls = 0
         /\ rag.returned.answer = "I encountered an error while retrieving information"

C28_Witness ==
  /\ rag.pc = "done"
  /\ rag.failed
  /\ rag.doc # <<>>
  /\ rag.returned.error = "Error retrieving context"


AllRegistries ==
  {heap[r] : r \in 1..Len(heap)}
  \cup {b.documents : b \in {f \in blobs : f.kind = "registry"}}

\* The files of document d are stored: its text, its metadata, the chunk map
\* the entry refers to, and the chunkCount chunks that map lists
FullyStored(entry) ==
  /\ \E f \in blobs : f.kind = "text" /\ f.documentId = entry.id
  /\ \E f \in blobs : /\ f.kind = "metadata" /\ f.documentId = entry.id
                      /\ f.chunkCount = entry.chunkCount
  /\ entry.chunkMapCid \in blobs
  /\ entry.chunkMapCid.kind = "chunkMap"
  /\ entry.chunkMapCid.documentId = entry.id
  /\ Len(entry.chunkMapCid.chunkCids) = entry.chunkCount
  /\ \A i \in 1..entry.chunkCount :
       /\ entry.chunkMapCid.chunkCids[i] \in blobs
       /\ entry.chunkMapCid.chunkCids[i].documentId = entry.id
       /\ entry.chunkMapCid.chunkCids[i].chunkIndex = i - 1

\* C30: whenever a registry holds an entry for a document, the document's
\* text, chunks, chunk map and metadata are stored, and the entry's
\* chunkMapCid is that stored chunk map.
C30_RegistryEntryMeansStored ==
  \A documents \in AllRegistries :
    \A i \in 1..Len(documents) : FullyStored(documents[i])

C30_Witness ==
  /\ globalStorage # NoCid
  /\ \E i \in 1..Len(globalStorage.documents) :
       globalStorage.documents[i].chunkCount >= 1
  /\ \E c \in Calls : call[c].pc = "failed" /\ "chunk" \in call[c].wrote

\* The ingest call that registered last: it returned its own document id,
\* every call before it returned too and no later call has started
LastRegistered(c) ==
  /\ call[c].pc = "done"
  /\ call[c].result = call[c].docId
  /\ \A d \in Calls : d < c => call[d].pc = "done"
  /\ \A d \in Calls : d > c => call[d].pc = "idle"

\* C31: after a call has registered its entry, the lookup by that entry's
\* content hash returns that entry, also when an older entry carries the hash.
C31_LookupReturnsLastRegistered ==
  \A c \in Calls :
    LastRegistered(c) =>
      findDocumentByHash(registryDocuments, call[c].hash).id = call[c].docId

\* C32: when the registry holds a chunk map reference for the queried
\* document, the retriever fetches the chunk map through that reference,
\* whatever fallback reference the caller gave.
C32_RegistryReferencePreferred ==
  (rag.registryCid # NULL /\ rag.fetchedCid # "") =>
    rag.fetchedCid = rag.registryCid

\* The chunks a vector-ranked result was chosen from: the compatible chunks
\* of the document; for the document processor's findRelevantChunks, which
\* skips what it cannot fetch, the chunks it computed a score for
RankedCandidates ==
  IF ret.fn = "findRelevantChunks" THEN ret.computed
  ELSE compatible(chunkList(ret.doc), ret.queryEmbedding)

\* C33: a vector-ranked result is in non-increasing order of cosine
\* similarity, and no compatible chunk left out of it has a strictly higher
\* similarity than a chunk in it.
C33_RankedTopK ==
  (ret.pc = "done" /\ ret.error = NULL) =>
    /\ \A i \in 1..Len(ret.result) :
         \A j \in 1..Len(ret.result) :
           i < j => ~ScoreLess(ret.result[i].score, ret.result[j].score)
    /\ scoredIds(ret.result) \subseteq RankedCandidates
    /\ \A c \in RankedCandidates \ scoredIds(ret.result) :
         \A i \in 1..Len(ret.result) :
           ~ScoreLess(ret.result[i].score,
                      cosineDistance(ret.queryEmbedding, ret.doc[c]))

C33_Witness ==
  /\ ret.pc = "done"
  /\ ret.fn = "retrieveSimilarChunks"
  /\ ret.error = NULL
  /\ Len(ret.result) = 2
  /\ ret.result[1].chunk = 3
  /\ ret.result[2].chunk = 1
  /\ 2 \in RankedCandidates
  /\ ScoreLess(ret.result[2].score, ret.result[1].score)
  /\ ScoreLess(cosineDistance(ret.queryEmbedding, ret.doc[2]), ret.result[2].score)

\* C34: a store call returns the key only if the backend add completed; a
\* call that timed out, or whose response could not be parsed, fails.
C34_SuccessOnlyIfAdded ==
  store.pc = "done" =>
    /\ store.returned # NULL => store.add.kind \in {"added", "addedNoMeta"}
    /\ (store.add.kind = "timeout" \/ "SyntaxError" \in store.add.marks) =>
         store.thrown

\* The ingest calls that registered an entry and returned
Registered ==
  {c \in Calls : /\ call[c].pc = "done" /\ ~call[c].check
                 /\ call[c].result = call[c].docId}

\* C35: once every register call has returned successfully, the registry
\* file the stored pointer refers to holds the entry of each of them.
C35_PointerHasEveryEntry ==
  (\A c \in Calls : call[c].pc \in {"idle", "done"}) =>
    \A c \in Registered :
      /\ globalStorage # NoCid
      /\ \E i \in 1..Len(globalStorage.documents) :
           globalStorage.documents[i].id = call[c].docId

\* The ids of the entries of a stored registry file (none while no pointer is set)
PersistedIds(pointer) ==
  IF pointer = NoCid THEN {}
  ELSE {pointer.documents[i].id : i \in 1..Len(pointer.documents)}

\* C36: whatever happens to a load of the persisted registry, the registry
\* the pointer refers to after a register holds every entry the one before
\* it held.
C36_PersistedEntriesKept ==
  [][PersistedIds(globalStorage) \subseteq PersistedIds(globalStorage')]_vars

\* Call c is a check-duplicate request that has answered, after ingest calls
\* that all returned and whose text extraction succeeded, and nothing has
\* been started since
CheckAnswered(c) ==
  /\ call[c].check
  /\ call[c].pc = "done"
  /\ \A d \in Calls : d > c => call[d].pc = "idle"
  /\ \A d \in Calls :
       d < c => /\ ~call[d].check
                /\ call[d].pc = "done"
                /\ call[d].text = extractTextFromDocument(call[d].file, TRUE)

\* C37: check-duplicate answers exists with document id D exactly when an
\* ingest of the same file, without dedup bypass, would return D at its
\* dedup gate (result 0: exists is false, the gate lets the file through).
C37_CheckAgreesWithGate ==
  \A c \in Calls :
    CheckAnswered(c) =>
      call[c].result =
        findDocumentByHash(
          registryDocuments,
          generateContentHash(extractTextFromDocument(call[c].file, TRUE))).id

\* C38: a findRelevantChunks for a document that an ingest call returned
\* never fails with 'not found in the index'.
C38_ReturnedDocumentInIndex ==
  \A c \in Calls : call[c].lookup # "not found in the index"

\* C39: the chunk map of a document that was ingested has the keys 0..n-1
\* for its n chunks, the file under key i holds chunk index i, the i-th
\* chunk text and the embedding of that text, and no chunk file is stored
\* without an embedding.
C39_ChunkMapAlignedWithChunks ==
  /\ \A c \in Registered :
       LET chunkCids == call[c].chunkMapCid.chunkCids
       IN /\ Len(chunkCids) = Len(call[c].chunks)
          /\ \A i \in 1..Len(chunkCids) :
               /\ chunkCids[i] \in blobs
               /\ chunkCids[i].chunkIndex = i - 1
               /\ chunkCids[i].text = call[c].chunks[i]
               /\ chunkCids[i].embedding = ModelEmbedding(call[c].chunks[i])
  /\ \A f \in blobs : f.kind = "chunk" => f.embedding # <<>>

=============================================================================
